---- MODULE Spec2Model ----
(***************************************************************************)
(* A model of YASMIJ.js: the Constraint object (src/dev/Constraint.js) and *)
(* the areObjectsSame helper of the YASMIJ mixin.                          *)
(*                                                                         *)
(* Strings the code matches with regular expressions, or builds with +=,   *)
(* are sequences of one-character strings.  Numbers are fixed point: the   *)
(* integer n stands for n * 1e-6, so that Constraint.EPSILON is the        *)
(* integer 1 and the number 1 is the integer Unit.                         *)
(***************************************************************************)
EXTENDS Integers, Sequences, FiniteSets, TLC

VARIABLES
    constraint,   \* the Constraint object: comparison, leftSide, rightSide, slackValue
    prev,         \* the Constraint object as it was before the last call
    prev2,        \* ... and before the call before, when that was the same method
    lastOp,       \* the method called last
    lastArgs,     \* its arguments
    run,          \* how many times in a row lastOp has been called (counted to 2)
    stdForm,      \* getStandardMaxForm() was called, and only it and normalize() since
    appended,     \* number of addSlack() / addSurplus() calls on the object
    nOps,         \* number of method calls on the object
    text,         \* the string handed to Constraint.parse / getErrorMessage
    pstage,       \* "input", "parsed" or "checked"
    presult,      \* what Constraint.parse did with text
    errMsg,       \* getErrorMessage(text)
    errMsgNorm,   \* getErrorMessage(text with its whitespace runs collapsed)
    arg1,         \* the two operands of areObjectsSame
    arg2,
    eqStage,      \* "input" or "compared"
    same12,       \* areObjectsSame(arg1, arg2): "true", "false" or "throw"
    same21        \* areObjectsSame(arg2, arg1)

cvars == <<constraint, prev, prev2, lastOp, lastArgs, run, stdForm, appended, nOps>>
pvars == <<text, pstage, presult, errMsg, errMsgNorm>>
evars == <<arg1, arg2, eqStage, same12, same21>>
vars == <<cvars, pvars, evars>>

----------------------------------------------------------------------------
(* Bounds of the model *)

\* largest constant of a parsed expression
MaxConst == 1
\* number of method calls made on one Constraint
MaxOps == 3
\* values a variable takes when a constraint is evaluated: -MaxVal..MaxVal
MaxVal == 1
\* longest string handed to the parser
MaxLen == 4

----------------------------------------------------------------------------
(* Numbers *)

\* Constraint.EPSILON = 1e-6, the unit of the fixed-point numbers
EPSILON == 1
\* the number 1, in units of EPSILON
Unit == 1000000

Num(n) == n * Unit

----------------------------------------------------------------------------
(* Strings *)

Str_left == <<"l", "e", "f", "t">>
Str_right == <<"r", "i", "g", "h", "t">>
Str_up == <<"u", "p">>
Str_leftward == <<"l", "e", "f", "t", "w", "a", "r", "d">>

EQ == <<"=">>
LT == <<"<">>
GT == <<">">>
LE == <<"<", "=">>
GE == <<">", "=">>
Comparisons == {EQ, LT, GT, LE, GE}

\* RegExp.test for a pattern that is one literal: s contains sub
Contains(s, sub) ==
    \E i \in 1..(Len(s) - Len(sub) + 1) : SubSeq(s, i, i + Len(sub) - 1) = sub

\* /left|right/.test(s)
RE_leftOrRight(s) == Contains(s, Str_left) \/ Contains(s, Str_right)

\* /left/.test(s)
RE_left(s) == Contains(s, Str_left)

----------------------------------------------------------------------------
(* Expression: a mapping from term names to coefficients.  The constant    *)
(* term has the name "1".                                                  *)

hasTerm(e, name) == name \in DOMAIN e

getTermValue(e, name) == IF name \in DOMAIN e THEN e[name] ELSE 0

addTerm(e, name, value) ==
    [n \in DOMAIN e \cup {name} |->
        IF n = name THEN getTermValue(e, name) + value ELSE e[n]]

removeTerm(e, name) == [n \in DOMAIN e \ {name} |-> e[n]]

Expression_inverse(e) == [n \in DOMAIN e |-> -e[n]]

\* the names forEachVariable / forEachConstant visit
forEachVariable(e) == DOMAIN e \ {"1"}

forEachConstant(e) == DOMAIN e \cap {"1"}

----------------------------------------------------------------------------
(* Constraint *)

\* new Constraint()
NewConstraint ==
    [comparison |-> <<>>, leftSide |-> <<>>, rightSide |-> <<>>, slackValue |-> 0]

\* Constraint.switchSides, with the names forEachTermFunc visits on sideA
RECURSIVE switchSides(_, _, _)
switchSides(sideA, sideB, names) ==
    IF names = {} THEN [a |-> sideA, b |-> sideB]
    ELSE LET name == CHOOSE n \in names : TRUE
         IN switchSides(removeTerm(sideA, name),
                        addTerm(sideB, name, -sideA[name]),
                        names \ {name})

getSwappedSides(c, doSwap) ==
    [a |-> IF ~doSwap THEN c.leftSide ELSE c.rightSide,
     b |-> IF doSwap THEN c.leftSide ELSE c.rightSide]

\* the sides a and b are references into the Constraint: store them back
setSwappedSides(c, doSwap, sides) ==
    IF ~doSwap
    THEN [c EXCEPT !.leftSide = sides.a, !.rightSide = sides.b]
    ELSE [c EXCEPT !.rightSide = sides.a, !.leftSide = sides.b]

\* one if-block of moveTypeToOneSide: move the variables, or the constant,
\* of the other side to `side`
moveType(c, side, variables) ==
    IF RE_leftOrRight(side)
    THEN LET doSwap == RE_left(side)
             sides == getSwappedSides(c, doSwap)
             names == IF variables THEN forEachVariable(sides.a)
                                   ELSE forEachConstant(sides.a)
         IN setSwappedSides(c, doSwap, switchSides(sides.a, sides.b, names))
    ELSE c

moveTypeToOneSide(c, varSide, numSide) ==
    moveType(moveType(c, varSide, TRUE), numSide, FALSE)

inverse(c) ==
    [c EXCEPT !.leftSide = Expression_inverse(c.leftSide),
              !.rightSide = Expression_inverse(c.rightSide)]

\* oppositeCompare with one entry mistyped: "<" goes to ">"
oppositeCompare_mistyped == (GE :> LT) @@ (GT :> LE) @@ (LE :> GT) @@ (LT :> GT)

oppositeCompare == (GE :> LT) @@ (GT :> LE) @@ (LE :> GT) @@ (LT :> GE)

negateComparison(c) ==
    IF c.comparison \in DOMAIN oppositeCompare
    THEN inverse([c EXCEPT !.comparison = oppositeCompare[c.comparison]])
    ELSE c

\* removeStrictInEquality that shifts the constant but leaves the comparison strict
removeStrictInEquality_staysStrict(c) ==
    IF c.comparison = LT \/ c.comparison = GT
    THEN LET comparison == c.comparison \o <<"=">>
             eps == EPSILON * (IF Contains(comparison, GT) THEN 1 ELSE -1)
         IN [c EXCEPT !.rightSide = addTerm(c.rightSide, "1", eps)]
    ELSE c

\* removeStrictInEquality that takes the sign of the shift from "<" instead of ">"
removeStrictInEquality_signFromLess(c) ==
    IF c.comparison = LT \/ c.comparison = GT
    THEN LET comparison == c.comparison \o <<"=">>
             eps == EPSILON * (IF Contains(comparison, LT) THEN 1 ELSE -1)
         IN [c EXCEPT !.comparison = comparison,
                      !.rightSide = addTerm(c.rightSide, "1", eps)]
    ELSE c

removeStrictInEquality(c) ==
    IF c.comparison = LT \/ c.comparison = GT
    THEN LET comparison == c.comparison \o <<"=">>
             eps == EPSILON * (IF Contains(comparison, GT) THEN 1 ELSE -1)
         IN [c EXCEPT !.comparison = comparison,
                      !.rightSide = addTerm(c.rightSide, "1", eps)]
    ELSE c

normalize(c) == removeStrictInEquality(moveTypeToOneSide(c, Str_left, Str_right))

\* addSurplus that adds the surplus term with coefficient +1
addSurplus_positive(c) ==
    [c EXCEPT !.slackValue = -1,
              !.leftSide = addTerm(c.leftSide, "surplus", Num(1))]

addSurplus(c) ==
    [c EXCEPT !.slackValue = -1,
              !.leftSide = addTerm(c.leftSide, "surplus", Num(-1))]

addSlack(c) ==
    [c EXCEPT !.slackValue = 1,
              !.leftSide = addTerm(c.leftSide, "slack", Num(1))]

\* getStandardMaxForm that does not set the comparison to "="
getStandardMaxForm_keepsComparison(c) ==
    LET n == normalize(c)
    IN IF n.comparison = LE THEN addSlack(n)
       ELSE IF n.comparison = GE THEN addSurplus(n)
       ELSE n

getStandardMaxForm(c) ==
    LET n == normalize(c)
        s == IF n.comparison = LE THEN addSlack(n)
             ELSE IF n.comparison = GE THEN addSurplus(n)
             ELSE n
    IN [s EXCEPT !.comparison = EQ]

\* the names handed to varSwitchSide that are numbers
NumericNames == {"1"}

isNaN(name) == name \notin NumericNames

varSwitchSide(c, name0, moveTo) ==
    IF ~RE_leftOrRight(moveTo) THEN c
    ELSE LET name == IF isNaN(name0) THEN name0 ELSE "1"
             toLeft == (Str_left = moveTo)
             sideA == IF toLeft THEN c.rightSide ELSE c.leftSide
             sideB == IF ~toLeft THEN c.rightSide ELSE c.leftSide
         IN IF hasTerm(sideA, name)
            THEN LET b == addTerm(sideB, name, -getTermValue(sideA, name))
                     a == removeTerm(sideA, name)
                 IN IF toLeft
                    THEN [c EXCEPT !.rightSide = a, !.leftSide = b]
                    ELSE [c EXCEPT !.leftSide = a, !.rightSide = b]
            ELSE c

----------------------------------------------------------------------------
(* What Expression.parse can return: the terms of a text over the names    *)
(* VarNames, each with its coefficient, and a constant 0 or MaxConst       *)

VarNames == {"x", "slack"}

VarCoeff == ("x" :> Num(2)) @@ ("slack" :> Num(1))

ConstCoeffs == {Num(0), Num(MaxConst)}

Expressions ==
    UNION {
        {[n \in vs |-> VarCoeff[n]] @@ k : k \in [ks -> ConstCoeffs]} :
            vs \in SUBSET VarNames, ks \in SUBSET {"1"}}

\* Constraint.parseToObject of a well-formed text: two sides and the
\* comparison between them (a text with one side alone gives the right side
\* "0" and the comparison "=", which is among these)
ParseObjects ==
    [lhs : Expressions \ {<<>>}, comparison : Comparisons, rhs : Expressions \ {<<>>}]

\* Constraint.parse
parse(obj) ==
    [NewConstraint EXCEPT !.comparison = obj.comparison,
                          !.leftSide = obj.lhs,
                          !.rightSide = obj.rhs]

----------------------------------------------------------------------------
(* The calls made on one Constraint *)

Sides == {Str_left, Str_right}

MoveTos == {Str_left, Str_right, Str_up, Str_leftward}

SwitchNames == {"x"} \cup NumericNames

InitConstraint ==
    /\ constraint = NewConstraint
    /\ prev = NewConstraint
    /\ prev2 = NewConstraint
    /\ lastOp = "new"
    /\ lastArgs = <<>>
    /\ run = 0
    /\ stdForm = FALSE
    /\ appended = 0
    /\ nOps = 0

IdleConstraint ==
    /\ constraint = NewConstraint
    /\ prev = NewConstraint
    /\ prev2 = NewConstraint
    /\ lastOp = "none"
    /\ lastArgs = <<>>
    /\ run = 0
    /\ stdForm = FALSE
    /\ appended = 0
    /\ nOps = 0

IdleParser ==
    /\ text = <<>>
    /\ pstage = "none"
    /\ presult = <<>>
    /\ errMsg = "undefined"
    /\ errMsgNorm = "undefined"

IdleEquals ==
    /\ arg1 = <<>>
    /\ arg2 = <<>>
    /\ eqStage = "none"
    /\ same12 = "none"
    /\ same21 = "none"

\* a method call on the parsed Constraint: the object after it, and the
\* record of the call
Call(op, args, after, std, adds) ==
    /\ lastOp \notin {"new", "none"}
    /\ nOps < MaxOps
    /\ constraint' = after
    /\ prev' = constraint
    /\ prev2' = IF lastOp = op /\ lastArgs = args THEN prev ELSE constraint
    /\ run' = IF lastOp = op /\ lastArgs = args THEN 2 ELSE 1
    /\ lastOp' = op
    /\ lastArgs' = args
    /\ stdForm' = std
    /\ appended' = appended + adds
    /\ nOps' = nOps + 1
    /\ UNCHANGED <<pvars, evars>>

Parse ==
    /\ lastOp = "new"
    /\ \E obj \in ParseObjects : constraint' = parse(obj)
    /\ prev' = constraint
    /\ lastOp' = "parse"
    /\ UNCHANGED <<prev2, lastArgs, run, stdForm, appended, nOps, pvars, evars>>

Normalize ==
    Call("normalize", <<>>, normalize(constraint), stdForm, 0)

GetStandardMaxForm ==
    Call("getStandardMaxForm", <<>>, getStandardMaxForm(constraint), TRUE,
         IF normalize(constraint).comparison \in {LE, GE} THEN 1 ELSE 0)

NegateComparison ==
    Call("negateComparison", <<>>, negateComparison(constraint), FALSE, 0)

RemoveStrictInEquality ==
    Call("removeStrictInEquality", <<>>, removeStrictInEquality(constraint), FALSE, 0)

Inverse ==
    Call("inverse", <<>>, inverse(constraint), FALSE, 0)

MoveTypeToOneSide ==
    \E varSide \in Sides, numSide \in Sides :
        Call("moveTypeToOneSide", <<varSide, numSide>>,
             moveTypeToOneSide(constraint, varSide, numSide), FALSE, 0)

VarSwitchSide ==
    \E name \in SwitchNames, moveTo \in MoveTos :
        Call("varSwitchSide", <<name, moveTo>>,
             varSwitchSide(constraint, name, moveTo), FALSE, 0)

Init == InitConstraint /\ IdleParser /\ IdleEquals

Next ==
    \/ Parse
    \/ Normalize
    \/ GetStandardMaxForm
    \/ NegateComparison
    \/ RemoveStrictInEquality
    \/ Inverse
    \/ MoveTypeToOneSide
    \/ VarSwitchSide

Spec == Init /\ [][Next]_vars

----------------------------------------------------------------------------
(* Input validation and Constraint.parse, on texts over a small alphabet.   *)
(* The term names Expression.parse reads from a text are the character     *)
(* sequences of the text; the constant term is <<"1">>.                    *)

Alphabet == {"a", "0", "+", "-", "<", ">", "=", " "}

\* the digits of the alphabet, and their values
DigitValue == ("0" :> 0)

\* the characters \s matches
Whitespace == {" "}

OperatorChars == {"+", "-", ">", "<", "="}

Texts == UNION {[1..n -> Alphabet] : n \in 0..MaxLen}

IsNotWhitespace(ch) == ch \notin Whitespace

\* str.replace(/\s/g, "")
removeWhitespace(str) == SelectSeq(str, IsNotWhitespace)

\* the length of the match of /[<>]=?|=/ at position i of str, 0 for none
compareAt(str, i) ==
    IF i > Len(str) THEN 0
    ELSE IF str[i] \in {"<", ">"}
         THEN (IF i < Len(str) /\ str[i + 1] = "=" THEN 2 ELSE 1)
    ELSE IF str[i] = "=" THEN 1
    ELSE 0

\* str.match(/[<>]=?|=/g).length, scanning from position i
RECURSIVE countCompares(_, _)
countCompares(str, i) ==
    IF i > Len(str) THEN 0
    ELSE IF compareAt(str, i) > 0
         THEN 1 + countCompares(str, i + compareAt(str, i))
         ELSE countCompares(str, i + 1)

\* hasManyCompares with the count compared to 2
hasManyCompares_offByOne(str) ==
    2 < countCompares(removeWhitespace(str), 1)

hasManyCompares(str) ==
    1 < countCompares(removeWhitespace(str), 1)

\* /[^+\-><=]\s+[^+\-><=]/.test(str)
RE_noOperatorBetweenValues(str) ==
    \E i \in 1..Len(str), j \in 1..Len(str) :
        /\ i + 1 < j
        /\ str[i] \notin OperatorChars
        /\ \A k \in (i + 1)..(j - 1) : str[k] \in Whitespace
        /\ str[j] \notin OperatorChars

\* /[+\-][><=+\-]|[><=+\-]$/.test(str)
RE_noLeftAndRightTerms(str) ==
    \/ \E i \in 1..(Len(str) - 1) :
           str[i] \in {"+", "-"} /\ str[i + 1] \in OperatorChars
    \/ (Len(str) > 0 /\ str[Len(str)] \in OperatorChars)

hasIncompleteBinaryOperator(str) ==
    LET noSpaceStr == removeWhitespace(str)
        hasNoOperatorBetweenValues == RE_noOperatorBetweenValues(str)
    IN RE_noLeftAndRightTerms(noSpaceStr) \/ hasNoOperatorBetweenValues

getErrorMessage(str) ==
    LET errMsg1 == IF hasManyCompares(str) THEN "Only 1 comparision" ELSE "undefined"
    IN IF errMsg1 = "undefined" /\ hasIncompleteBinaryOperator(str)
       THEN "Math operators must be in between terms"
       ELSE errMsg1

\* the position of the first match of /[><]=?|=/ in str, 0 for none
RECURSIVE firstCompare(_, _)
firstCompare(str, i) ==
    IF i > Len(str) THEN 0
    ELSE IF compareAt(str, i) > 0 THEN i
    ELSE firstCompare(str, i + 1)

\* str.split(/[><]=?|=/)
RECURSIVE split(_)
split(str) ==
    LET i == firstCompare(str, 1)
    IN IF i = 0 THEN <<str>>
       ELSE <<SubSeq(str, 1, i - 1)>>
            \o split(SubSeq(str, i + compareAt(str, i), Len(str)))

\* "" + /[><]=?|=/.exec(str), for a str that has a match
execCompare(str) ==
    LET i == firstCompare(str, 1)
    IN SubSeq(str, i, i + compareAt(str, i) - 1)

\* Expression.parse: the text is empty
Expression_parseFails(str) == removeWhitespace(str) = <<>>

\* the number written with the digits str[from..to]
RECURSIVE numberOf(_, _, _)
numberOf(str, from, to) ==
    IF to < from THEN 0
    ELSE 10 * numberOf(str, from, to - 1) + DigitValue[str[to]]

\* Expression.parse of the signed terms from position i on: a term is a
\* number, a name, or a number followed by a name
RECURSIVE parseTerms(_, _, _)
parseTerms(str, i, e) ==
    IF i > Len(str) THEN e
    ELSE LET sign == IF str[i] = "-" THEN -1 ELSE 1
             from == IF str[i] \in {"+", "-"} THEN i + 1 ELSE i
             stops == {m \in from..Len(str) : str[m] \in {"+", "-"}}
             to == IF stops = {} THEN Len(str)
                   ELSE (CHOOSE m \in stops : \A o \in stops : m <= o) - 1
             nonDigits == {m \in from..to : str[m] \notin DOMAIN DigitValue}
             digits == IF nonDigits = {} THEN to - from + 1
                       ELSE (CHOOSE m \in nonDigits : \A o \in nonDigits : m <= o) - from
             name == IF from + digits > to THEN <<"1">>
                     ELSE SubSeq(str, from + digits, to)
             value == IF digits = 0 THEN 1 ELSE numberOf(str, from, from + digits - 1)
         IN parseTerms(str, to + 1, addTerm(e, name, Num(sign * value)))

Expression_parse(str) == parseTerms(removeWhitespace(str), 1, <<>>)

NoObject == "undefined"

\* Constraint.parseToObject: what it threw, the texts it handed to
\* Expression.parse, and the object it returned
parseToObject(str) ==
    LET errMsg1 == getErrorMessage(str)
        arr == split(str)
        zero == <<"0">>
    IN IF errMsg1 # "undefined"
       THEN [threw |-> TRUE, message |-> errMsg1, parsed |-> <<>>, obj |-> NoObject]
       ELSE IF Expression_parseFails(arr[1])
       THEN [threw |-> TRUE, message |-> "Expression.parse",
             parsed |-> <<zero, arr[1]>>, obj |-> NoObject]
       ELSE IF 1 < Len(arr) /\ Expression_parseFails(arr[2])
       THEN [threw |-> TRUE, message |-> "Expression.parse",
             parsed |-> <<zero, arr[1], arr[2]>>, obj |-> NoObject]
       ELSE IF 1 < Len(arr)
       THEN [threw |-> FALSE, message |-> "undefined",
             parsed |-> <<zero, arr[1], arr[2]>>,
             obj |-> [lhs |-> Expression_parse(arr[1]),
                      comparison |-> execCompare(str),
                      rhs |-> Expression_parse(arr[2])]]
       ELSE [threw |-> FALSE, message |-> "undefined",
             parsed |-> <<zero, arr[1]>>,
             obj |-> [lhs |-> Expression_parse(arr[1]),
                      comparison |-> EQ,
                      rhs |-> Expression_parse(zero)]]

\* Constraint.parse of a text
Constraint_parse(str) ==
    LET r == parseToObject(str)
    IN [threw |-> r.threw, message |-> r.message, parsed |-> r.parsed,
        constraint |-> IF r.threw THEN NoObject ELSE parse(r.obj)]

\* the text with every run of whitespace replaced by one space, and no
\* whitespace at its ends
RECURSIVE collapse(_, _)
collapse(str, i) ==
    IF i > Len(str) THEN <<>>
    ELSE IF str[i] \notin Whitespace THEN <<str[i]>> \o collapse(str, i + 1)
    ELSE IF i = 1 \/ str[i - 1] \in Whitespace
              \/ (\A k \in i..Len(str) : str[k] \in Whitespace)
         THEN collapse(str, i + 1)
    ELSE <<" ">> \o collapse(str, i + 1)

collapseWhitespace(str) == collapse(str, 1)

ParserInput ==
    /\ text \in Texts
    /\ pstage = "input"
    /\ presult = <<>>
    /\ errMsg = "undefined"
    /\ errMsgNorm = "undefined"

\* Constraint.parse(text)
ParseText ==
    /\ pstage = "input"
    /\ presult' = Constraint_parse(text)
    /\ pstage' = "parsed"
    /\ UNCHANGED <<text, errMsg, errMsgNorm, cvars, evars>>

\* Constraint.getErrorMessage on the text, and on the text with its
\* whitespace collapsed
GetErrorMessage ==
    /\ pstage = "input"
    /\ errMsg' = getErrorMessage(text)
    /\ errMsgNorm' = getErrorMessage(collapseWhitespace(text))
    /\ pstage' = "checked"
    /\ UNCHANGED <<text, presult, cvars, evars>>

NextParser ==
    \/ ParseText
    \/ GetErrorMessage

InitParser == IdleConstraint /\ ParserInput /\ IdleEquals

SpecParser == InitParser /\ [][NextParser]_vars

----------------------------------------------------------------------------
(* YASMIJ.areObjectsSame, on JavaScript values: numbers, strings,          *)
(* undefined, and objects.  An object has an identity (ref), a constructor *)
(* and its own properties in enumeration order.                            *)

JsUndefined ==
    [type |-> "undefined", ref |-> 0, ctor |-> "", props |-> <<>>, num |-> 0, str |-> ""]

JsNumber(n) ==
    [type |-> "number", ref |-> 0, ctor |-> "Number", props |-> <<>>, num |-> n, str |-> ""]

JsString(t) ==
    [type |-> "string", ref |-> 0, ctor |-> "String", props |-> <<>>, num |-> 0, str |-> t]

JsObject(ref, ctor, props) ==
    [type |-> "object", ref |-> ref, ctor |-> ctor, props |-> props, num |-> 0, str |-> ""]

\* one own property
Prop(key, value) == [key |-> key, value |-> value]

\* obj[prop]
GetProp(obj, key) ==
    IF \E i \in 1..Len(obj.props) : obj.props[i].key = key
    THEN obj.props[CHOOSE i \in 1..Len(obj.props) : obj.props[i].key = key].value
    ELSE JsUndefined

\* typeof v
TypeOf(v) == v.type

\* a === b
StrictEquals(a, b) ==
    IF a.type = "object" /\ b.type = "object" THEN a.ref = b.ref
    ELSE /\ a.type = b.type
         /\ a.num = b.num
         /\ a.str = b.str

\* obj instanceof ctor: every object is an instance of Object
InstanceOf(obj, ctor) ==
    obj.type = "object" /\ (ctor = "Object" \/ obj.ctor = ctor)

\* v.toString() of a number or a string
JsToString(v) == IF v.type = "number" THEN ToString(v.num) ELSE v.str

\* the for-in loop of areObjectsSame from the i-th own property of arg1 on,
\* and areObjectsSame itself: "true", "false", or "throw" for a TypeError
RECURSIVE areObjectsSameFrom(_, _, _)
RECURSIVE areObjectsSame(_, _)
areObjectsSameFrom(obj1, obj2, i) ==
    IF i > Len(obj1.props) THEN "true"
    ELSE LET a == obj1.props[i].value
             b == GetProp(obj2, obj1.props[i].key)
         IN IF TypeOf(a) = "object"
            THEN IF TypeOf(a) # TypeOf(b) THEN "false"
                 ELSE LET same == areObjectsSame(a, b)
                      IN IF same = "true"
                         THEN areObjectsSameFrom(obj1, obj2, i + 1)
                         ELSE same
            ELSE IF TypeOf(a) = "undefined" \/ TypeOf(b) \in {"undefined", "object"}
                 THEN (IF TypeOf(b) = "object" THEN "false" ELSE "throw")
            ELSE IF JsToString(a) # JsToString(b) THEN "false"
            ELSE areObjectsSameFrom(obj1, obj2, i + 1)

areObjectsSame(obj1, obj2) ==
    IF StrictEquals(obj1, obj2) THEN "true"
    ELSE IF obj2.type = "undefined" THEN "throw"
    ELSE IF ~InstanceOf(obj1, obj2.ctor) THEN "false"
    ELSE areObjectsSameFrom(obj1, obj2, 1)

\* the term mappings compared: own properties in insertion order
TermProps ==
    {<<>>}
    \cup {<<Prop("x", v)>> : v \in {JsNumber(1), JsNumber(2), JsString("1")}}
    \cup {<<Prop("y", JsNumber(1))>>,
          <<Prop("x", JsNumber(1)), Prop("y", JsNumber(1))>>,
          <<Prop("y", JsNumber(1)), Prop("x", JsNumber(1))>>}

\* an Expression object: its terms
ExpressionObject(ref, terms) ==
    JsObject(ref, "Expression", <<Prop("terms", JsObject(ref + 1, "Object", terms))>>)

\* a Constraint object: the fields the constructor sets, in its order
ConstraintObject(ref, comparison, left, right) ==
    JsObject(ref, "Constraint",
        <<Prop("comparison", JsString(comparison)),
          Prop("leftSide", ExpressionObject(ref + 1, left)),
          Prop("rightSide", ExpressionObject(ref + 3, right)),
          Prop("slackValue", JsNumber(0)),
          Prop("terms", JsObject(ref + 5, "Object", <<>>))>>)

\* the values handed to areObjectsSame, with identities from ref on
Operands(ref) ==
    {ConstraintObject(ref, c, l, <<Prop("1", JsNumber(1))>>) :
        c \in {"=", "<="}, l \in TermProps}
    \cup {JsObject(ref, "Object", t) : t \in TermProps}

EqualsInput ==
    /\ arg1 \in Operands(1)
    /\ arg2 \in Operands(11) \cup {arg1}
    /\ eqStage = "input"
    /\ same12 = "none"
    /\ same21 = "none"

\* areObjectsSame(arg1, arg2) and areObjectsSame(arg2, arg1)
AreObjectsSame ==
    /\ eqStage = "input"
    /\ same12' = areObjectsSame(arg1, arg2)
    /\ same21' = areObjectsSame(arg2, arg1)
    /\ eqStage' = "compared"
    /\ UNCHANGED <<arg1, arg2, cvars, pvars>>

InitEquals == IdleConstraint /\ IdleParser /\ EqualsInput

NextEquals == AreObjectsSame

SpecEquals == InitEquals /\ [][NextEquals]_vars

----------------------------------------------------------------------------
(* What the claims speak of *)

\* the coefficient of a term in an expression, an absent term counted as 0
Coef(e, n) == IF n \in DOMAIN e THEN e[n] ELSE 0

\* the coefficient of a term in the constraint brought to the form "... cmp 0"
Net(c, n) == Coef(c.leftSide, n) - Coef(c.rightSide, n)

TermNames == VarNames \cup {"surplus", "1"}

Assignments == [TermNames \ {"1"} -> (-MaxVal)..MaxVal]

RECURSIVE SumTerms(_, _, _)
SumTerms(e, asg, names) ==
    IF names = {} THEN 0
    ELSE LET n == CHOOSE m \in names : TRUE
         IN e[n] * (IF n = "1" THEN 1 ELSE asg[n]) + SumTerms(e, asg, names \ {n})

\* the value of an expression under an assignment of integers to its variables
Value(e, asg) == SumTerms(e, asg, DOMAIN e)

\* whether the assignment satisfies the constraint
Satisfied(c, asg) ==
    LET l == Value(c.leftSide, asg)
        r == Value(c.rightSide, asg)
    IN CASE c.comparison = EQ -> l = r
         [] c.comparison = LT -> l < r
         [] c.comparison = GT -> l > r
         [] c.comparison = LE -> l <= r
         [] c.comparison = GE -> l >= r

\* the variables and the constant are where the standard form wants them
VarsLeftConstRight(c) ==
    /\ DOMAIN c.rightSide \subseteq {"1"}
    /\ "1" \notin DOMAIN c.leftSide

(* C1, as stated: once getStandardMaxForm() has returned, and after any
   further getStandardMaxForm() or normalize() calls, the comparison is "=",
   rightSide holds no variable, leftSide holds no constant, and leftSide
   holds at most one of the terms "slack" and "surplus". *)
C1_StandardForm_Original ==
    stdForm =>
        /\ constraint.comparison = EQ
        /\ VarsLeftConstRight(constraint)
        /\ Cardinality(DOMAIN constraint.leftSide \cap {"slack", "surplus"}) <= 1

(* C1, amended: once getStandardMaxForm() has returned, and after any
   further getStandardMaxForm() or normalize() calls, the comparison is "=",
   rightSide holds no variable, leftSide holds no constant, and at most one
   slack or surplus term has been appended to leftSide over the life of the
   Constraint (slackValue tells which: 0 for none). *)
C1_StandardForm ==
    stdForm =>
        /\ constraint.comparison = EQ
        /\ VarsLeftConstRight(constraint)
        /\ appended <= 1
        /\ (appended = 0) = (constraint.slackValue = 0)
        /\ constraint.slackValue \in {-1, 0, 1}

\* a second getStandardMaxForm() on a Constraint that got its slack or
\* surplus from the first
C1_Witness ==
    /\ stdForm
    /\ lastOp = "getStandardMaxForm"
    /\ run = 2
    /\ appended = 1
    /\ prev2.comparison \in {LT, GE}

(* C2: getStandardMaxForm() adds slack with coefficient +1 and sets
   slackValue to 1 when the comparison was "<=" or "<", adds surplus with
   coefficient -1 and sets slackValue to -1 when it was ">=" or ">", and
   adds no term and leaves slackValue as it was when it was "=". *)
C2_SlackOrSurplus ==
    lastOp = "getStandardMaxForm" =>
        LET variables == (DOMAIN prev.leftSide \cup DOMAIN prev.rightSide) \ {"1"}
            left == constraint.leftSide
            others == \A n \in variables \ {"slack", "surplus"} :
                          Coef(left, n) = Net(prev, n)
        IN /\ others
           /\ prev.comparison \in {LE, LT} =>
                /\ Coef(left, "slack") = Net(prev, "slack") + Num(1)
                /\ Coef(left, "surplus") = Net(prev, "surplus")
                /\ DOMAIN left = variables \cup {"slack"}
                /\ constraint.slackValue = 1
           /\ prev.comparison \in {GE, GT} =>
                /\ Coef(left, "surplus") = Net(prev, "surplus") - Num(1)
                /\ Coef(left, "slack") = Net(prev, "slack")
                /\ DOMAIN left = variables \cup {"surplus"}
                /\ constraint.slackValue = -1
           /\ prev.comparison = EQ =>
                /\ Coef(left, "slack") = Net(prev, "slack")
                /\ Coef(left, "surplus") = Net(prev, "surplus")
                /\ DOMAIN left = variables
                /\ constraint.slackValue = prev.slackValue

\* getStandardMaxForm() on a parsed ">" constraint
C2_Witness ==
    /\ lastOp = "getStandardMaxForm"
    /\ prev.comparison = GT
    /\ prev.slackValue = 0
    /\ constraint.slackValue = -1
    /\ "surplus" \in DOMAIN constraint.leftSide

(* C4: negateComparison() keeps an inequality equivalent: every assignment
   satisfies the constraint before the call exactly when it satisfies the
   constraint after it. *)
C4_NegateEquivalent ==
    (lastOp = "negateComparison" /\ prev.comparison \in {LT, GT, LE, GE}) =>
        \A asg \in Assignments : Satisfied(prev, asg) = Satisfied(constraint, asg)

(* C5: negateComparison() is an involution: two calls in a row give back
   the comparison and every coefficient, and on "=" one call changes
   nothing. *)
C5_NegateInvolution ==
    /\ (lastOp = "negateComparison" /\ run = 2) => constraint = prev2
    /\ (lastOp = "negateComparison" /\ prev.comparison = EQ) => constraint = prev

\* two negateComparison() calls in a row on an inequality, the first of
\* which changed the Constraint
C5_Witness ==
    /\ lastOp = "negateComparison"
    /\ run = 2
    /\ prev2.comparison = LE
    /\ prev.comparison = GT
    /\ prev # prev2

(* C6: normalize() is idempotent: a second normalize() right after the
   first leaves comparison, both sides and slackValue as they were. *)
C6_NormalizeIdempotent ==
    (lastOp = "normalize" /\ run = 2) => constraint = prev

\* two normalize() calls in a row, the first of which moved terms and
\* removed a strict inequality
C6_Witness ==
    /\ lastOp = "normalize"
    /\ run = 2
    /\ prev2.comparison = LT
    /\ ~VarsLeftConstRight(prev2)
    /\ constraint.comparison = LE

(* C7: removeStrictInEquality() turns "<" into "<=" with the constant of
   rightSide lowered by EPSILON and ">" into ">=" with it raised by EPSILON,
   changes nothing else, and every assignment that satisfies the result
   satisfies the strict constraint; on "=", "<=", ">=" it changes nothing. *)
C7_RemoveStrict ==
    lastOp = "removeStrictInEquality" =>
        LET sameButConstant ==
                /\ constraint.leftSide = prev.leftSide
                /\ constraint.slackValue = prev.slackValue
                /\ \A n \in TermNames \ {"1"} :
                       /\ (n \in DOMAIN constraint.rightSide) = (n \in DOMAIN prev.rightSide)
                       /\ Coef(constraint.rightSide, n) = Coef(prev.rightSide, n)
            tighter == \A asg \in Assignments :
                           Satisfied(constraint, asg) => Satisfied(prev, asg)
        IN /\ prev.comparison = LT =>
                /\ constraint.comparison = LE
                /\ Coef(constraint.rightSide, "1") = Coef(prev.rightSide, "1") - EPSILON
                /\ sameButConstant
                /\ tighter
           /\ prev.comparison = GT =>
                /\ constraint.comparison = GE
                /\ Coef(constraint.rightSide, "1") = Coef(prev.rightSide, "1") + EPSILON
                /\ sameButConstant
                /\ tighter
           /\ prev.comparison \in {EQ, LE, GE} => constraint = prev

\* removeStrictInEquality() on a ">" constraint that some assignment
\* satisfies at its boundary
C7_Witness ==
    /\ lastOp = "removeStrictInEquality"
    /\ prev.comparison = GT
    /\ \E asg \in Assignments :
           /\ Value(prev.leftSide, asg) = Value(prev.rightSide, asg)
           /\ ~Satisfied(constraint, asg)
    /\ \E asg \in Assignments : Satisfied(constraint, asg)

(* C9: moveTypeToOneSide() and varSwitchSide() keep, for every term name,
   the coefficient on leftSide minus the coefficient on rightSide, and keep
   comparison and slackValue; varSwitchSide() changes no term but the named
   one, and changes nothing when the term is absent from the side it moves
   from or when moveTo is neither "left" nor "right". *)
C9_MovePreservesEquation ==
    lastOp \in {"moveTypeToOneSide", "varSwitchSide"} =>
        /\ \A n \in TermNames : Net(constraint, n) = Net(prev, n)
        /\ constraint.comparison = prev.comparison
        /\ constraint.slackValue = prev.slackValue
        /\ lastOp = "varSwitchSide" =>
             LET name == lastArgs[1]
                 moveTo == lastArgs[2]
                 from == IF moveTo = Str_left THEN prev.rightSide ELSE prev.leftSide
             IN /\ \A n \in TermNames \ {name} :
                      /\ Coef(constraint.leftSide, n) = Coef(prev.leftSide, n)
                      /\ Coef(constraint.rightSide, n) = Coef(prev.rightSide, n)
                /\ (name \notin DOMAIN from \/ moveTo \notin {Str_left, Str_right}) =>
                      constraint = prev

\* the number of comparison operators =, <, >, <=, >= in a text
ComparisonOperators(s) ==
    Cardinality({i \in 1..Len(s) : s[i] \in {"<", ">"}})
    + Cardinality({i \in 1..Len(s) :
                      s[i] = "=" /\ (i = 1 \/ s[i - 1] \notin {"<", ">"})})

\* a + or - lacks its right operand, or the text ends with an operator
DanglingOperator(s) ==
    \/ \E i \in 1..(Len(s) - 1) :
           s[i] \in {"+", "-"} /\ s[i + 1] \in {"+", "-", "<", ">", "="}
    \/ (s # <<>> /\ s[Len(s)] \in {"+", "-", "<", ">", "="})

IsNoSpace(ch) == ch # " "

(* C3: Constraint.parse(text) throws and produces no Constraint whenever
   the text, whitespace ignored, holds more than one comparison operator, a
   + or - followed at once by +, - or a comparison operator, or an operator
   at its end; it throws before either side is handed to Expression.parse. *)
C3_ParseRejects ==
    LET s == SelectSeq(text, IsNoSpace)
    IN (pstage = "parsed" /\ (ComparisonOperators(s) > 1 \/ DanglingOperator(s))) =>
           /\ presult.threw
           /\ presult.constraint = NoObject
           /\ presult.parsed = <<>>

\* parse of a text with two comparison operators and every operand in place
C3_Witness ==
    /\ pstage = "parsed"
    /\ ComparisonOperators(SelectSeq(text, IsNoSpace)) = 2
    /\ ~DanglingOperator(SelectSeq(text, IsNoSpace))
    /\ Len(SelectSeq(text, IsNoSpace)) = Len(text)
    /\ presult.threw

(* C10: getErrorMessage reports an error for a text exactly when it
   reports one for the text with every run of whitespace replaced by a
   single space and the whitespace at its ends removed. *)
C10_WhitespaceIndependent ==
    pstage = "checked" => ((errMsg # "undefined") = (errMsgNorm # "undefined"))

\* the own fields of an object
Fields(o) == {o.props[i].key : i \in 1..Len(o.props)}

\* deep structural equality: the same own fields, each with an equal value,
\* nested objects compared the same way and scalars by their string form
RECURSIVE DeepEqual(_, _)
DeepEqual(a, b) ==
    IF a.type = "object" /\ b.type = "object"
    THEN /\ Fields(a) = Fields(b)
         /\ \A k \in Fields(a) : DeepEqual(GetProp(a, k), GetProp(b, k))
    ELSE /\ a.type # "object"
         /\ b.type # "object"
         /\ JsToString(a) = JsToString(b)

(* C8: areObjectsSame is deep structural equality: it returns true exactly
   when both values have the same own fields with equal values, false (not
   true, not an exception) otherwise, and the same answer with its operands
   swapped. *)
C8_DeepEquality ==
    eqStage = "compared" =>
        /\ same12 = (IF DeepEqual(arg1, arg2) THEN "true" ELSE "false")
        /\ same12 = same21

====
